---- MODULE Spec2Model ----
(***************************************************************************)
(* Model of the alert engine of discord-proxmox-bot: the scheduler         *)
(* (startAlertSystem), the metric collector (collectMetrics), the          *)
(* threshold evaluator (checkThresholds), the workload transition detector *)
(* (checkVMStatus), the notifier (sendDiscordAlert) and the parts of       *)
(* proxmox.ts and database.ts they call.                                   *)
(*                                                                         *)
(* An async function is cut at its awaits that wait for I/O: everything    *)
(* between two such awaits is one atomic step of the event loop.  An await *)
(* of an already finished call (sendDiscordAlert without a webhook URL)    *)
(* only yields to the microtask queue and is not a cut.                    *)
(*                                                                         *)
(* Percentages are integers (the samples are chosen so that                *)
(* used / total * 100 is exact); Date.now() is clock * ClockStep ms.       *)
(***************************************************************************)
EXTENDS Integers, Sequences, FiniteSets, TLC

\* ------------------------------------------------------------------ bounds
MaxTime == 4          \* the clock runs from 1 to MaxTime
MaxCalls == 2         \* direct invocations in the function-level specifications
MaxUpdates == 1       \* operator /setalert commands

\* --------------------------------------------------------------- constants
ClockStep == 5 * 60 * 1000          \* ms of one clock unit
COOLDOWN_MS == 15 * 60 * 1000

None == "none"

NodeNames == <<"pve1", "pve2">>

VARIABLES
    clock,            \* Date.now() / ClockStep
    nodes,            \* proxmox.nodes: the configured node names, in order
    webhook,          \* DISCORD_WEBHOOK_URL is set
    alert_thresholds, \* table alert_thresholds, rows in id order
    alert_history,    \* table alert_history, rows in id order
    metric_history,   \* table metric_history, rows in id order
    vm_states,        \* bot_config row 'vm_states': NoRow or Row(the JSON text)
    alertCooldowns,   \* Map "node:metric" -> Date.now() of the last alert
    lastNodeErrors,   \* proxmox.lastNodeErrors: node -> message
    sendCalls,        \* the calls of sendDiscordAlert, in order
    delivery,         \* the outcome of the last call of sendDiscordAlert
    pc,               \* per run: the await it is suspended at
    nodesStatus,      \* per run: local nodesStatus
    thresholds,       \* per run: local thresholds
    pos,              \* per run: position of the running loop
    nodeIdx,          \* per run: getVMs' position in targetNodes
    allVMs,           \* per run: getVMs' allVMs
    vms,              \* per run: checkVMStatus' vms
    prevStatesMap,    \* per run: local prevStatesMap
    currentStatesMap, \* per run: local currentStatesMap
    timedOut,         \* the 30 s timer of the initial run has rejected
    written,          \* history: the number of writes of 'vm_states' so far
    readAt,           \* history, per run: `written` when the run read 'vm_states'
    failing,          \* the storage operation whose next call throws, or None
    alive,            \* the process is running
    lastSeen,         \* per workload key, the state the latest run that
                      \* observed the key found it in
    calls,            \* number of direct invocations made
    updates           \* number of operator updates made

dbVars == <<alert_thresholds, alert_history, metric_history, vm_states>>
runVars == <<pc, nodesStatus, thresholds, pos, nodeIdx, allVMs, vms, prevStatesMap,
            currentStatesMap>>
vars == <<clock, nodes, webhook, alert_thresholds, alert_history, metric_history,
          vm_states, alertCooldowns, lastNodeErrors, sendCalls, delivery, pc, nodesStatus,
          thresholds, pos, nodeIdx, allVMs, vms, prevStatesMap, currentStatesMap,
          timedOut, written, readAt, failing, alive,
          lastSeen, calls, updates>>

\* ------------------------------------------------------------------- runs
MaxTicks == 1         \* cron firings
MaxOps == 4           \* calls of database.ts functions in SpecStore
Caller == <<"call", 0>>
Startup == <<"startup", 0>>
TickRuns == {<<"tick", i>> : i \in 1..MaxTicks}
Runs == {Caller, Startup} \cup TickRuns

Now == clock * ClockStep

Range(s) == {s[i] : i \in DOMAIN s}

\* ------------------------------------------------------------ database.ts
\* initDatabase: the three INSERT OR IGNORE rows
DefaultThresholds ==
    << [metric |-> "cpu", threshold |-> 80, enabled |-> TRUE],
       [metric |-> "memory", threshold |-> 85, enabled |-> TRUE],
       [metric |-> "disk", threshold |-> 90, enabled |-> TRUE] >>

\* variant: INSERT OR REPLACE in place of lines 53-55
initDatabaseReplace(table) == DefaultThresholds

\* initDatabase, lines 53-55: INSERT OR IGNORE on the UNIQUE column metric
\* adds the rows whose metric the table does not hold yet
RECURSIVE SeedLoop(_, _)
SeedLoop(table, defaults) ==
    IF defaults = <<>> THEN table
    ELSE IF \E i \in DOMAIN table : table[i].metric = Head(defaults).metric
    THEN SeedLoop(table, Tail(defaults))
    ELSE SeedLoop(Append(table, Head(defaults)), Tail(defaults))

initDatabase(table) == SeedLoop(table, DefaultThresholds)

getAlertThresholds == alert_thresholds

\* UPDATE alert_thresholds SET threshold = ?, enabled = ? WHERE metric = ?
updateAlertThreshold(metric, threshold, enabled) ==
    [i \in DOMAIN alert_thresholds |->
        IF alert_thresholds[i].metric = metric
        THEN [alert_thresholds[i] EXCEPT !.threshold = threshold, !.enabled = enabled]
        ELSE alert_thresholds[i]]

\* INSERT INTO alert_history (metric, value, threshold, message); created_at
\* is the column's default
addAlertHistory(hist, metric, value, threshold, message) ==
    Append(hist, [metric |-> metric, value |-> value, threshold |-> threshold,
                  message |-> message, created_at |-> Now])

\* INSERT INTO metric_history (node, metric, value); created_at is the
\* column's default
addMetricHistory(hist, node, metric, value) ==
    Append(hist, [node |-> node, metric |-> metric, value |-> value,
                  created_at |-> Now])

WEEK_MS == 7 * 24 * 60 * 60 * 1000
DAY_MS == 24 * 60 * 60 * 1000
HISTORY_LIMIT == 1000

\* created_at < weekAgo as SQLite compares the two texts: the column holds
\* 'YYYY-MM-DD HH:MM:SS', weekAgo is 'YYYY-MM-DDTHH:MM:SS.sssZ'; the dates
\* decide, and on equal dates ' ' sorts before 'T'
TextBefore(created, cutoff) == created \div DAY_MS <= cutoff \div DAY_MS

RECURSIVE Keep(_, _)
Keep(rows, cutoff) ==
    IF rows = <<>> THEN <<>>
    ELSE IF TextBefore(Head(rows).created_at, cutoff) THEN Keep(Tail(rows), cutoff)
    ELSE <<Head(rows)>> \o Keep(Tail(rows), cutoff)

\* variant: the cutoff is six days back
cleanupMetricsShort(rows) == Keep(rows, Now - 6 * DAY_MS)

\* cleanupOldHistory, line 125
cleanupMetrics(rows) == Keep(rows, Now - WEEK_MS)

\* CURRENT_TIMESTAMP has the resolution of one second
Second(created) == created \div 1000

\* `rows` without the rows at the positions in D
RECURSIVE Drop(_, _)
Drop(rows, D) ==
    IF D = {} THEN rows
    ELSE LET d == CHOOSE x \in D : \A y \in D : y <= x
         IN  Drop(SubSeq(rows, 1, d - 1) \o SubSeq(rows, d + 1, Len(rows)), D \ {d})

\* the rows of `rows` at the positions in S, in their order
Pick(rows, S) == Drop(rows, DOMAIN rows \ S)

\* SELECT id FROM alert_history ORDER BY created_at DESC LIMIT 1000: the rows
\* of the later seconds, and of the rows that share the second at the cut as
\* many as fit; SQL leaves open which of these
KeptIds(rows) ==
    LET ids == DOMAIN rows
        later(i) == {j \in ids : Second(rows[j].created_at) > Second(rows[i].created_at)}
        same(i) == {j \in ids : Second(rows[j].created_at) = Second(rows[i].created_at)}
    IN  IF Len(rows) <= HISTORY_LIMIT THEN {ids}
        ELSE LET cut == CHOOSE i \in ids :
                            /\ Cardinality(later(i)) < HISTORY_LIMIT
                            /\ Cardinality(later(i) \cup same(i)) >= HISTORY_LIMIT
             IN  {later(cut) \cup T : T \in {X \in SUBSET same(cut) :
                        Cardinality(X) = HISTORY_LIMIT - Cardinality(later(cut))}}

\* cleanupOldHistory, lines 127-131: what the DELETE can leave
cleanupAlerts(rows) == {Pick(rows, S) : S \in KeptIds(rows)}

\* table bot_config, key 'vm_states': no row, or the row with its value
NoRow == [row |-> FALSE, value |-> {}]
Row(text) == [row |-> TRUE, value |-> text]

\* getConfig('vm_states'): the row's value, or undefined
getConfig == vm_states

\* setConfig('vm_states', value): INSERT OR REPLACE
setConfig(value) == Row(value)

\* JSON.stringify of a Record<string, string>: the text lists the key/value pairs
JSONstringify(map) == {<<k, map[k]>> : k \in DOMAIN map}

\* JSON.parse of such a text
JSONparse(text) ==
    [k \in {p[1] : p \in text} |-> (CHOOSE p \in text : p[1] = k)[2]]

\* ------------------------------------------------------------- alerts.ts
getCooldownKey(node, metric) == <<node, metric>>

\* variant: a window one clock unit too short
isOnCooldownShort(cd, node, metric) ==
    LET key == <<node, metric>> IN
    IF key \notin DOMAIN cd THEN FALSE
    ELSE IF cd[key] = 0 THEN FALSE
    ELSE Now - cd[key] < COOLDOWN_MS - ClockStep

\* !lastAlert is true for a missing entry and for the number 0
isOnCooldown(cd, node, metric) ==
    LET key == getCooldownKey(node, metric) IN
    IF key \notin DOMAIN cd THEN FALSE
    ELSE IF cd[key] = 0 THEN FALSE
    ELSE Now - cd[key] < COOLDOWN_MS

setCooldown(cd, node, metric) ==
    LET key == getCooldownKey(node, metric) IN
    [x \in DOMAIN cd \cup {key} |-> IF x = key THEN Now ELSE cd[x]]

\* the switch of checkThresholds: the value and the label of a threshold's metric
currentValue(status, metric) ==
    CASE metric = "cpu" -> status.cpu
      [] metric = "memory" -> (status.memory.used * 100) \div status.memory.total
      [] metric = "disk" -> (status.disk.used * 100) \div status.disk.total
      [] OTHER -> 0

metricName(metric) ==
    CASE metric = "cpu" -> "CPU"
      [] metric = "memory" -> "RAM"
      [] metric = "disk" -> "Disk"
      [] OTHER -> ""

\* the run a call of sendDiscordAlert belongs to: a cron firing, the initial
\* run, or the calls-th direct invocation
RunId(r) == IF r[1] = "call" THEN <<"call", calls>> ELSE r

\* a call of sendDiscordAlert by run r
Notification(r, kind, node, what) ==
    [run |-> RunId(r), kind |-> kind, node |-> node, what |-> what, at |-> Now]

\* a call of sendDiscordAlert by checkVMStatus in run r
VmNotification(r, kind, vm, basis) ==
    [run |-> RunId(r), kind |-> kind, node |-> vm.node, what |-> vm.vmid, at |-> Now,
     basis |-> basis]

\* sendDiscordAlert at its call: without a webhook URL it warns and returns,
\* otherwise the POST is in flight until the run resumes
Posting == IF webhook THEN "pending" ELSE "unconfigured"

\* the pair the loop of checkThresholds is at: nodes outer, thresholds inner
ThrCount(statuses, ths) == Len(statuses) * Len(ths)
ThrStatus(statuses, ths, k) == statuses[(k \div Len(ths)) + 1]
ThrRow(ths, k) == ths[(k % Len(ths)) + 1]

ThrMessage(status, th) ==
    [label |-> metricName(th.metric), node |-> status.node,
     value |-> currentValue(status, th.metric), threshold |-> th.threshold]

\* variant: strictly above the threshold
ShouldAlertStrict(cd, status, th) ==
    /\ th.enabled
    /\ currentValue(status, th.metric) > th.threshold
    /\ ~isOnCooldown(cd, status.node, th.metric)

\* variant: the enabled flag is not looked at
ShouldAlertAll(cd, status, th) ==
    /\ currentValue(status, th.metric) >= th.threshold
    /\ ~isOnCooldown(cd, status.node, th.metric)

\* lines 75, 95, 96: the alert condition of one (node, threshold) pair
ShouldAlert(cd, status, th) ==
    /\ th.enabled
    /\ currentValue(status, th.metric) >= th.threshold
    /\ ~isOnCooldown(cd, status.node, th.metric)

\* The loop of checkThresholds from position st.k up to its next await of
\* a webhook POST, or to its end.  st = [k, hist, cd, sent, delivery, await].
RECURSIVE ThrLoop(_, _, _, _)
ThrLoop(r, statuses, ths, st) ==
    IF st.k >= ThrCount(statuses, ths) THEN st
    ELSE
      LET status == ThrStatus(statuses, ths, st.k)
          th == ThrRow(ths, st.k)
      IN
      IF ShouldAlert(st.cd, status, th) /\ st.failing = "addAlertHistory"
      THEN \* line 99 throws, line 112 logs, checkThresholds returns
           [st EXCEPT !.failing = None]
      ELSE IF ShouldAlert(st.cd, status, th)
      THEN LET fired ==
                 [st EXCEPT
                    !.hist = addAlertHistory(st.hist, th.metric,
                                 currentValue(status, th.metric), th.threshold,
                                 ThrMessage(status, th)),
                    !.sent = Append(st.sent,
                                 Notification(r, "threshold", status.node, th.metric)),
                    !.delivery = Posting]
           IN
           IF webhook
           THEN [fired EXCEPT !.await = TRUE]
           ELSE ThrLoop(r, statuses, ths,
                        [fired EXCEPT !.k = st.k + 1,
                                      !.cd = setCooldown(st.cd, status.node, th.metric)])
      ELSE ThrLoop(r, statuses, ths, [st EXCEPT !.k = st.k + 1])

\* ------------------------------------------------------------ proxmox.ts
Failed == [failed |-> TRUE]

\* getNodeStatus: the status of node `name` built from the node's answer
getNodeStatus(name, answer) ==
    [node |-> name, cpu |-> answer.cpu, memory |-> answer.memory, disk |-> answer.disk]

\* getAllNodesStatus: Promise.allSettled over the nodes, then the fulfilled
\* results in node order; a rejected fetch leaves no trace
RECURSIVE Fulfilled(_, _)
Fulfilled(answers, i) ==
    IF i > Len(nodes) THEN <<>>
    ELSE IF answers[i] = Failed THEN Fulfilled(answers, i + 1)
    ELSE <<getNodeStatus(nodes[i], answers[i])>> \o Fulfilled(answers, i + 1)

getAllNodesStatus(answers) == Fulfilled(answers, 1)

\* allVMs.sort((a, b) => a.vmid - b.vmid): stable, ascending vmid
RECURSIVE InsertByVmid(_, _)
InsertByVmid(vm, list) ==
    IF list = <<>> THEN <<vm>>
    ELSE IF vm.vmid < Head(list).vmid THEN <<vm>> \o list
    ELSE <<Head(list)>> \o InsertByVmid(vm, Tail(list))

RECURSIVE SortByVmid(_)
SortByVmid(list) ==
    IF list = <<>> THEN <<>>
    ELSE InsertByVmid(list[Len(list)], SortByVmid(SubSeq(list, 1, Len(list) - 1)))

\* lines 151-154: the machines of one node's answer, tagged with the node
TagNode(answer, name) ==
    [i \in DOMAIN answer |-> [vmid |-> answer[i].vmid, status |-> answer[i].status,
                               node |-> name]]

\* ---------------------------------------------------------- control flow
EmptyMap == [x \in {} |-> None]

SnapshotMap(row) == IF row.row THEN JSONparse(row.value) ELSE EmptyMap

Kind(r) == r[1]

\* variant: the tick goes from collectMetrics straight to checkVMStatus
AfterSkip(r, fn) ==
    CASE Kind(r) = "call" -> "idle"
      [] fn = "collectMetrics" -> "vm_fetch"
      [] OTHER -> "done"

\* what a run awaits first after the function `fn` has returned
After(r, fn) ==
    CASE Kind(r) = "call" -> "idle"
      [] fn = "collectMetrics" -> "thr_fetch"
      [] fn = "checkThresholds" -> "vm_fetch"
      [] OTHER -> "done"

\* getVMs up to its first await: lastNodeErrors = new Map(), allVMs = []
getVMsBegin(r) ==
    /\ lastNodeErrors' = EmptyMap
    /\ nodeIdx' = [nodeIdx EXCEPT ![r] = 0]
    /\ allVMs' = [allVMs EXCEPT ![r] = <<>>]

\* ------------------------------------------------- collectMetrics, steps
\* lines 55-62: three points per status, in the order of the statuses
RECURSIVE CollectLoop(_, _)
CollectLoop(statuses, hist) ==
    IF statuses = <<>> THEN hist
    ELSE LET status == Head(statuses)
             withCpu == addMetricHistory(hist, status.node, "cpu",
                                         currentValue(status, "cpu"))
             withMem == addMetricHistory(withCpu, status.node, "memory",
                                         currentValue(status, "memory"))
             withDisk == addMetricHistory(withMem, status.node, "disk",
                                          currentValue(status, "disk"))
         IN CollectLoop(Tail(statuses), withDisk)

\* variant: the points are those of the batch the run held before
CollectedStale(r, answers) ==
    /\ pc[r] = "collect_fetch"
    /\ metric_history' = CollectLoop(IF nodesStatus[r] = <<>>
                                     THEN getAllNodesStatus(answers)
                                     ELSE nodesStatus[r], metric_history)
    /\ nodesStatus' = [nodesStatus EXCEPT ![r] = getAllNodesStatus(answers)]
    /\ pc' = [pc EXCEPT ![r] = After(r, "collectMetrics")]
    /\ failing' = failing
    /\ UNCHANGED <<clock, nodes, webhook, alert_thresholds, alert_history, vm_states,
                   alertCooldowns, lastNodeErrors, sendCalls, delivery,
                   thresholds, pos, nodeIdx, allVMs, vms, prevStatesMap,
                   currentStatesMap, timedOut, written, readAt, alive, lastSeen,
                   calls, updates>>

\* line 53 and the loop: the status fetches have settled
Collected(r, answers) ==
    /\ pc[r] = "collect_fetch"
    /\ IF failing = "addMetricHistory" /\ getAllNodesStatus(answers) # <<>>
       THEN \* line 59 throws, line 64 logs
            /\ metric_history' = metric_history
            /\ failing' = None
       ELSE /\ metric_history' = CollectLoop(getAllNodesStatus(answers), metric_history)
            /\ failing' = failing
    /\ nodesStatus' = [nodesStatus EXCEPT ![r] = getAllNodesStatus(answers)]
    /\ pc' = [pc EXCEPT ![r] = After(r, "collectMetrics")]
    /\ UNCHANGED <<clock, nodes, webhook, alert_thresholds, alert_history, vm_states,
                   alertCooldowns, lastNodeErrors, sendCalls, delivery,
                   thresholds, pos, nodeIdx, allVMs, vms, prevStatesMap,
                   currentStatesMap, timedOut, written, readAt, alive, lastSeen,
                   calls, updates>>

\* ------------------------------------------------- checkThresholds, steps
\* the run leaves the loop in state st: suspended at a POST, or returned
ThrCommit(r, statuses, ths, st) ==
    /\ alert_history' = st.hist
    /\ alertCooldowns' = st.cd
    /\ sendCalls' = st.sent
    /\ delivery' = st.delivery
    /\ failing' = st.failing
    /\ nodesStatus' = [nodesStatus EXCEPT ![r] = statuses]
    /\ thresholds' = [thresholds EXCEPT ![r] = ths]
    /\ pos' = [pos EXCEPT ![r] = st.k]
    /\ IF st.await
       THEN /\ pc' = [pc EXCEPT ![r] = "thr_send"]
            /\ UNCHANGED <<lastNodeErrors, nodeIdx, allVMs>>
       ELSE /\ pc' = [pc EXCEPT ![r] = After(r, "checkThresholds")]
            /\ IF After(r, "checkThresholds") = "vm_fetch"
               THEN getVMsBegin(r)
               ELSE UNCHANGED <<lastNodeErrors, nodeIdx, allVMs>>

\* lines 70-71 and the loop up to its first POST: the status fetches have settled
ThrFetched(r, answers) ==
    /\ pc[r] = "thr_fetch"
    /\ LET statuses == getAllNodesStatus(answers)
           ths == getAlertThresholds
       IN ThrCommit(r, statuses, ths,
              ThrLoop(r, statuses, ths,
                  [k |-> 0, hist |-> alert_history, cd |-> alertCooldowns,
                   sent |-> sendCalls, delivery |-> delivery, await |-> FALSE,
                   failing |-> failing]))
    /\ UNCHANGED <<clock, nodes, webhook, alert_thresholds, metric_history, vm_states,
                   vms, prevStatesMap, currentStatesMap, timedOut, written, readAt, calls, updates,
                   alive, lastSeen>>

\* variant: a failed POST leaves the cooldown alone
ThrSentOkOnly(r, res) ==
    /\ pc[r] = "thr_send"
    /\ LET status == ThrStatus(nodesStatus[r], thresholds[r], pos[r])
           th == ThrRow(thresholds[r], pos[r])
       IN ThrCommit(r, nodesStatus[r], thresholds[r],
              ThrLoop(r, nodesStatus[r], thresholds[r],
                  [k |-> pos[r] + 1, hist |-> alert_history,
                   cd |-> IF res = "ok"
                          THEN setCooldown(alertCooldowns, status.node, th.metric)
                          ELSE alertCooldowns,
                   sent |-> sendCalls, delivery |-> res, await |-> FALSE,
                   failing |-> failing]))
    /\ UNCHANGED <<clock, nodes, webhook, alert_thresholds, metric_history, vm_states,
                   vms, prevStatesMap, currentStatesMap, timedOut, written, readAt,
                   calls, updates,
                   alive, lastSeen>>

\* the POST of line 101 has finished with `res` ("ok", or "failed": caught
\* and logged in sendDiscordAlert); line 107 and the loop up to its next POST
ThrSent(r, res) ==
    /\ pc[r] = "thr_send"
    /\ LET status == ThrStatus(nodesStatus[r], thresholds[r], pos[r])
           th == ThrRow(thresholds[r], pos[r])
       IN ThrCommit(r, nodesStatus[r], thresholds[r],
              ThrLoop(r, nodesStatus[r], thresholds[r],
                  [k |-> pos[r] + 1, hist |-> alert_history,
                   cd |-> setCooldown(alertCooldowns, status.node, th.metric),
                   sent |-> sendCalls, delivery |-> res, await |-> FALSE,
                   failing |-> failing]))
    /\ UNCHANGED <<clock, nodes, webhook, alert_thresholds, metric_history, vm_states,
                   vms, prevStatesMap, currentStatesMap, timedOut, written, readAt, calls, updates,
                   alive, lastSeen>>

\* --------------------------------------------------- checkVMStatus, steps
VmKey(vm) == <<vm.node, vm.vmid>>

\* variant: any state but running counts as stopped before
TransitionLoose(prev, vm) ==
    IF <<vm.node, vm.vmid>> \notin DOMAIN prev THEN None
    ELSE IF prev[<<vm.node, vm.vmid>>] = "running" /\ vm.status = "stopped" THEN "stopped"
    ELSE IF prev[<<vm.node, vm.vmid>>] # "running" /\ vm.status = "running" THEN "started"
    ELSE None

\* lines 128 and 136: "stopped", "started", or None for no transition
Transition(prev, vm) ==
    IF VmKey(vm) \notin DOMAIN prev THEN None
    ELSE IF prev[VmKey(vm)] = "running" /\ vm.status = "stopped" THEN "stopped"
    ELSE IF prev[VmKey(vm)] = "stopped" /\ vm.status = "running" THEN "started"
    ELSE None

\* currentStatesMap[key] = vm.status
PutState(cur, vm) ==
    [k \in DOMAIN cur \cup {VmKey(vm)} |-> IF k = VmKey(vm) THEN vm.status ELSE cur[k]]

\* The loop of checkVMStatus from position st.k up to its next await of a
\* webhook POST, or to its end.  st = [k, cur, sent, delivery, await, basis];
\* basis tells which write of 'vm_states' the run compares against.
RECURSIVE VmLoop(_, _, _, _)
VmLoop(r, list, prev, st) ==
    IF st.k >= Len(list) THEN st
    ELSE
      LET vm == list[st.k + 1]
          seen == [st EXCEPT !.cur = PutState(st.cur, vm)]
      IN
      IF Transition(prev, vm) # None
      THEN LET told ==
                 [seen EXCEPT
                    !.sent = Append(st.sent,
                                 VmNotification(r, Transition(prev, vm), vm, st.basis)),
                    !.delivery = Posting]
           IN
           IF webhook
           THEN [told EXCEPT !.await = TRUE]
           ELSE VmLoop(r, list, prev, [told EXCEPT !.k = st.k + 1])
      ELSE VmLoop(r, list, prev, [seen EXCEPT !.k = st.k + 1])

\* the states of the keys in cur, and for the other keys what was seen before
Seen(last, cur) ==
    [k \in DOMAIN last \cup DOMAIN cur |-> IF k \in DOMAIN cur THEN cur[k] ELSE last[k]]

\* variant: the new states are merged into the previous snapshot
VmCommitMerge(r, list, prev, st) ==
    /\ vms' = [vms EXCEPT ![r] = list]
    /\ prevStatesMap' = [prevStatesMap EXCEPT ![r] = prev]
    /\ currentStatesMap' = [currentStatesMap EXCEPT ![r] = st.cur]
    /\ pos' = [pos EXCEPT ![r] = st.k]
    /\ sendCalls' = st.sent
    /\ delivery' = st.delivery
    /\ readAt' = [readAt EXCEPT ![r] = st.basis]
    /\ IF st.await
       THEN /\ pc' = [pc EXCEPT ![r] = "vm_send"]
            /\ UNCHANGED <<vm_states, metric_history, alert_history, written,
                           failing, alive, lastSeen>>
       ELSE /\ pc' = [pc EXCEPT ![r] = After(r, "checkVMStatus")]
            /\ written' = written + 1
            /\ lastSeen' = Seen(lastSeen, st.cur)
            /\ UNCHANGED <<failing, alive>>
            /\ vm_states' = setConfig(JSONstringify(
                  [k \in DOMAIN prev \cup DOMAIN st.cur |->
                      IF k \in DOMAIN st.cur THEN st.cur[k] ELSE prev[k]]))
            /\ IF Kind(r) = "tick"
               THEN /\ metric_history' = cleanupMetrics(metric_history)
                    /\ alert_history' \in cleanupAlerts(alert_history)
               ELSE UNCHANGED <<metric_history, alert_history>>

\* variant: the snapshot is written only by a run that sent nothing
VmCommitQuiet(r, list, prev, st) ==
    /\ vms' = [vms EXCEPT ![r] = list]
    /\ prevStatesMap' = [prevStatesMap EXCEPT ![r] = prev]
    /\ currentStatesMap' = [currentStatesMap EXCEPT ![r] = st.cur]
    /\ pos' = [pos EXCEPT ![r] = st.k]
    /\ sendCalls' = st.sent
    /\ delivery' = st.delivery
    /\ readAt' = [readAt EXCEPT ![r] = st.basis]
    /\ IF st.await
       THEN /\ pc' = [pc EXCEPT ![r] = "vm_send"]
            /\ UNCHANGED <<vm_states, metric_history, alert_history, written,
                           failing, alive, lastSeen>>
       ELSE /\ pc' = [pc EXCEPT ![r] = After(r, "checkVMStatus")]
            /\ written' = written + 1
            /\ lastSeen' = Seen(lastSeen, st.cur)
            /\ UNCHANGED <<failing, alive>>
            /\ vm_states' = IF \E i \in DOMAIN list : Transition(prev, list[i]) # None
                             THEN vm_states
                             ELSE setConfig(JSONstringify(st.cur))
            /\ IF Kind(r) = "tick"
               THEN /\ metric_history' = cleanupMetrics(metric_history)
                    /\ alert_history' \in cleanupAlerts(alert_history)
               ELSE UNCHANGED <<metric_history, alert_history>>

\* the run leaves the loop in state st: suspended at a POST, or at line 145
\* and returned; a cron run goes on to cleanupOldHistory
VmCommit(r, list, prev, st) ==
    /\ vms' = [vms EXCEPT ![r] = list]
    /\ prevStatesMap' = [prevStatesMap EXCEPT ![r] = prev]
    /\ currentStatesMap' = [currentStatesMap EXCEPT ![r] = st.cur]
    /\ pos' = [pos EXCEPT ![r] = st.k]
    /\ sendCalls' = st.sent
    /\ delivery' = st.delivery
    /\ readAt' = [readAt EXCEPT ![r] = st.basis]
    /\ IF st.await
       THEN /\ pc' = [pc EXCEPT ![r] = "vm_send"]
            /\ UNCHANGED <<vm_states, metric_history, alert_history, written,
                           failing, alive, lastSeen>>
       ELSE /\ pc' = [pc EXCEPT ![r] = After(r, "checkVMStatus")]
            /\ lastSeen' = Seen(lastSeen, st.cur)
            /\ IF failing = "setConfig"
               THEN \* line 145 throws, line 147 logs
                    UNCHANGED <<vm_states, written>>
               ELSE /\ vm_states' = setConfig(JSONstringify(st.cur))
                    /\ written' = written + 1
            /\ IF Kind(r) = "tick" /\ failing = "cleanupOldHistory"
               THEN \* line 164 throws in the cron callback: its promise
                    \* rejects, and nothing in this module handles that; the
                    \* scheduler library absorbs it, or Node ends the process
                    /\ UNCHANGED <<metric_history, alert_history>>
                    /\ alive' \in BOOLEAN
               ELSE /\ alive' = alive
                    /\ IF Kind(r) = "tick"
                       THEN /\ metric_history' = cleanupMetrics(metric_history)
                            /\ alert_history' \in cleanupAlerts(alert_history)
                       ELSE UNCHANGED <<metric_history, alert_history>>
            /\ failing' = IF \/ failing = "setConfig"
                             \/ Kind(r) = "tick" /\ failing = "cleanupOldHistory"
                          THEN None ELSE failing

\* getVMs, lines 141-160: the two fetches of the node at nodeIdx have settled;
\* after the last node getVMs returns and checkVMStatus runs lines 120-145
\* up to its first POST
VmNodeFetched(r, answer) ==
    /\ pc[r] = "vm_fetch"
    /\ LET name == nodes[nodeIdx[r] + 1]
           all == IF answer.failed THEN allVMs[r]
                  ELSE allVMs[r] \o TagNode(answer.list, name)
           errors == IF answer.failed
                     THEN [n \in DOMAIN lastNodeErrors \cup {name} |-> "error"]
                     ELSE lastNodeErrors
       IN
       /\ allVMs' = [allVMs EXCEPT ![r] = all]
       /\ lastNodeErrors' = errors
       /\ nodeIdx' = [nodeIdx EXCEPT ![r] = nodeIdx[r] + 1]
       /\ IF nodeIdx[r] + 1 < Len(nodes)
          THEN UNCHANGED <<pc, pos, vms, prevStatesMap, currentStatesMap, sendCalls,
                           delivery, vm_states, metric_history, alert_history,
                           written, readAt, failing, alive, lastSeen>>
          ELSE LET prev == IF getConfig.row THEN JSONparse(getConfig.value) ELSE EmptyMap
               IN VmCommit(r, SortByVmid(all), prev,
                      VmLoop(r, SortByVmid(all), prev,
                          [k |-> 0, cur |-> EmptyMap, sent |-> sendCalls,
                           delivery |-> delivery, await |-> FALSE,
                           basis |-> written]))
    /\ UNCHANGED <<clock, nodes, webhook, alert_thresholds, alertCooldowns,
                   nodesStatus, thresholds, timedOut, calls, updates>>

\* the POST of line 129 or 137 has finished with `res`; the loop up to its next POST
VmSent(r, res) ==
    /\ pc[r] = "vm_send"
    /\ VmCommit(r, vms[r], prevStatesMap[r],
           VmLoop(r, vms[r], prevStatesMap[r],
               [k |-> pos[r] + 1, cur |-> currentStatesMap[r], sent |-> sendCalls,
                delivery |-> res, await |-> FALSE, basis |-> readAt[r]]))
    /\ UNCHANGED <<clock, nodes, webhook, alert_thresholds, alertCooldowns,
                   lastNodeErrors, nodesStatus, thresholds, nodeIdx, allVMs,
                   timedOut, calls, updates>>

\* ----------------------------------------------------------- environment
\* time passes
Tick ==
    /\ clock < MaxTime
    /\ clock' = clock + 1
    /\ UNCHANGED <<nodes, webhook, alert_thresholds, alert_history, metric_history,
                   vm_states, alertCooldowns, lastNodeErrors, sendCalls, delivery, pc,
                   nodesStatus, thresholds, pos, nodeIdx, allVMs, vms, prevStatesMap,
                   currentStatesMap, timedOut, written, readAt, calls, updates,
                   failing, alive, lastSeen>>

\* the operator's /setalert command (handleSetAlert)
SetAlert(metric, threshold, enabled) ==
    /\ updates < MaxUpdates
    /\ updates' = updates + 1
    /\ alert_thresholds' = updateAlertThreshold(metric, threshold, enabled)
    /\ UNCHANGED <<clock, nodes, webhook, alert_history, metric_history,
                   vm_states, alertCooldowns, lastNodeErrors, sendCalls, delivery, pc,
                   nodesStatus, thresholds, pos, nodeIdx, allVMs, vms, prevStatesMap,
                   currentStatesMap, timedOut, written, readAt, calls,
                   failing, alive, lastSeen>>

\* a direct invocation of checkThresholds, when the previous call has returned
CallCheckThresholds ==
    /\ pc[Caller] = "idle"
    /\ calls < MaxCalls
    /\ calls' = calls + 1
    /\ pc' = [pc EXCEPT ![Caller] = "thr_fetch"]
    /\ UNCHANGED <<clock, nodes, webhook, alert_thresholds, alert_history,
                   metric_history, vm_states, alertCooldowns, lastNodeErrors,
                   sendCalls, delivery, nodesStatus, thresholds, pos, nodeIdx, allVMs, vms, prevStatesMap,
                   currentStatesMap, timedOut, written, readAt, updates,
                   failing, alive, lastSeen>>

\* ------------------------------------------------------------ scheduler
Scheduled == {Startup} \cup TickRuns

\* the cron expression matches (every five minutes): the callback of line 159
\* starts, whatever the earlier callbacks are doing
CronFire ==
    /\ clock <= MaxTicks
    /\ clock' = clock + 1
    /\ pc' = [pc EXCEPT ![<<"tick", clock>>] = "collect_fetch"]
    /\ UNCHANGED <<nodes, webhook, alert_thresholds, alert_history, metric_history,
                   vm_states, alertCooldowns, lastNodeErrors, sendCalls, delivery,
                   nodesStatus, thresholds, pos, nodeIdx, allVMs, vms, prevStatesMap,
                   currentStatesMap, timedOut, written, readAt, calls, updates,
                   failing, alive, lastSeen>>

\* the timer of line 167 expires five seconds after startAlertSystem
InitialRun ==
    /\ pc[Startup] = "idle"
    /\ pc' = [pc EXCEPT ![Startup] = "collect_fetch"]
    /\ UNCHANGED <<clock, nodes, webhook, alert_thresholds, alert_history,
                   metric_history, vm_states, alertCooldowns, lastNodeErrors,
                   sendCalls, delivery, nodesStatus, thresholds, pos, nodeIdx, allVMs,
                   vms, prevStatesMap, currentStatesMap, timedOut, written, readAt,
                   calls, updates,
                   failing, alive, lastSeen>>

\* the timer of line 178 expires while the initial run is in progress (not
\* during collectMetrics, whose fetches abort after 15 s): the race rejects,
\* lines 181-184 log, the inner function goes on
InitialTimeout ==
    /\ pc[Startup] \notin {"idle", "collect_fetch", "done"}
    /\ ~timedOut
    /\ timedOut' = TRUE
    /\ UNCHANGED <<clock, nodes, webhook, alert_thresholds, alert_history,
                   metric_history, vm_states, alertCooldowns, lastNodeErrors,
                   sendCalls, delivery, pc, nodesStatus, thresholds, pos, nodeIdx,
                   allVMs, vms, prevStatesMap, currentStatesMap, written, readAt,
                   calls, updates,
                   failing, alive, lastSeen>>

\* ------------------------------------------------------------ the inputs
\* answers of the node status endpoint: cpu (already * 100), memory, rootfs
Calm == [cpu |-> 10, memory |-> [used |-> 50, total |-> 100],
         disk |-> [used |-> 50, total |-> 100]]
Busy == [cpu |-> 85, memory |-> [used |-> 85, total |-> 100],
         disk |-> [used |-> 10, total |-> 20]]

StatusAnswers == {Calm, Busy}

\* one answer or failure per configured node
AnswerSets(answers) == [1..Len(nodes) -> answers \cup {Failed}]

SetAlertInputs == {<<"cpu", 90, TRUE>>, <<"memory", 85, FALSE>>}

\* a direct invocation of checkVMStatus, when the previous call has returned
CallCheckVMStatus ==
    /\ pc[Caller] = "idle"
    /\ calls < MaxCalls
    /\ calls' = calls + 1
    /\ pc' = [pc EXCEPT ![Caller] = "vm_fetch"]
    /\ getVMsBegin(Caller)
    /\ UNCHANGED <<clock, nodes, webhook, alert_thresholds, alert_history,
                   metric_history, vm_states, alertCooldowns, sendCalls, delivery,
                   nodesStatus, thresholds, pos, vms, prevStatesMap,
                   currentStatesMap, timedOut, written, readAt, updates,
                   failing, alive, lastSeen>>

\* a direct invocation of collectMetrics, when the previous call has returned
CallCollectMetrics ==
    /\ pc[Caller] = "idle"
    /\ calls < MaxCalls
    /\ calls' = calls + 1
    /\ pc' = [pc EXCEPT ![Caller] = "collect_fetch"]
    /\ UNCHANGED <<clock, nodes, webhook, alert_thresholds, alert_history,
                   metric_history, vm_states, alertCooldowns, lastNodeErrors,
                   sendCalls, delivery, nodesStatus, thresholds, pos, nodeIdx, allVMs,
                   vms, prevStatesMap, currentStatesMap, timedOut, written, readAt,
                   updates,
                   failing, alive, lastSeen>>

\* answers of a node's qemu and lxc endpoints: each node hosts at most one
\* machine; pve2's has the smaller vmid
States == {"running", "stopped", "paused"}
VmidOf(name) == IF name = "pve1" THEN 200 ELSE 100
VmAnswers(name) ==
    {[failed |-> TRUE, list |-> <<>>], [failed |-> FALSE, list |-> <<>>]}
    \cup {[failed |-> FALSE, list |-> <<[vmid |-> VmidOf(name), status |-> st]>>] :
             st \in States}

\* the answers the node run r is fetching from can give
VmAnswersAt(r) ==
    IF nodeIdx[r] < Len(nodes) THEN VmAnswers(nodes[nodeIdx[r] + 1]) ELSE {}

Keys == {<<NodeNames[i], VmidOf(NodeNames[i])>> : i \in DOMAIN NodeNames}

\* the snapshots a previous process can have left in bot_config
Snapshots ==
    {NoRow} \cup UNION {{Row(JSONstringify(m)) : m \in [K -> States]} : K \in SUBSET Keys}

\* ------------------------------------------------------------- the specs
InitRuns ==
    /\ pc = [r \in Runs |-> "idle"]
    /\ nodesStatus = [r \in Runs |-> <<>>]
    /\ thresholds = [r \in Runs |-> <<>>]
    /\ pos = [r \in Runs |-> 0]
    /\ nodeIdx = [r \in Runs |-> 0]
    /\ allVMs = [r \in Runs |-> <<>>]
    /\ vms = [r \in Runs |-> <<>>]
    /\ prevStatesMap = [r \in Runs |-> EmptyMap]
    /\ currentStatesMap = [r \in Runs |-> EmptyMap]
    /\ timedOut = FALSE
    /\ written = 0
    /\ failing = None
    /\ alive = TRUE
    /\ readAt = [r \in Runs |-> 0]
    /\ calls = 0
    /\ updates = 0

InitProcess ==
    /\ clock = 1
    /\ alert_thresholds = DefaultThresholds
    /\ alert_history = <<>>
    /\ alertCooldowns = EmptyMap
    /\ lastNodeErrors = EmptyMap
    /\ sendCalls = <<>>
    /\ delivery = None

\* checkThresholds called again and again, one call at a time
InitThr ==
    /\ InitRuns
    /\ InitProcess
    /\ metric_history = <<>>
    /\ nodes = NodeNames
    /\ webhook \in BOOLEAN
    /\ vm_states = NoRow
    /\ lastSeen = SnapshotMap(vm_states)

NextThr ==
    \/ CallCheckThresholds
    \/ \E answers \in AnswerSets(StatusAnswers) : ThrFetched(Caller, answers)
    \/ \E res \in {"ok", "failed"} : ThrSent(Caller, res)
    \/ \E in \in SetAlertInputs : SetAlert(in[1], in[2], in[3])
    \/ Tick

SpecThr == InitThr /\ [][NextThr]_vars

\* checkVMStatus called again and again, one call at a time
InitVM ==
    /\ InitRuns
    /\ InitProcess
    /\ metric_history = <<>>
    /\ nodes = NodeNames
    /\ webhook \in BOOLEAN
    /\ vm_states \in Snapshots
    /\ lastSeen = SnapshotMap(vm_states)

NextVM ==
    \/ CallCheckVMStatus
    \/ \E answer \in VmAnswersAt(Caller) : VmNodeFetched(Caller, answer)
    \/ \E res \in {"ok", "failed"} : VmSent(Caller, res)

SpecVM == InitVM /\ [][NextVM]_vars

\* collectMetrics called again and again, one call at a time
InitCollect ==
    /\ InitRuns
    /\ InitProcess
    /\ metric_history = <<>>
    /\ nodes = NodeNames
    /\ webhook = FALSE
    /\ vm_states = NoRow
    /\ lastSeen = SnapshotMap(vm_states)

NextCollect ==
    \/ CallCollectMetrics
    \/ \E answers \in AnswerSets(StatusAnswers) : Collected(Caller, answers)
    \/ Tick

SpecCollect == InitCollect /\ [][NextCollect]_vars

\* the process as startAlertSystem schedules it: the initial run and the
\* cron firings, each running collectMetrics, checkThresholds, checkVMStatus
Hot == [cpu |-> 85, memory |-> [used |-> 50, total |-> 100],
        disk |-> [used |-> 50, total |-> 100]]

\* pve1 answers, pve2 answers or fails
SchedStatusAnswers == {<<Hot, Hot>>, <<Hot, Failed>>}

\* pve1 hosts one machine, found stopped, or its fetch fails; pve2 hosts none
SchedVmAnswersAt(r) ==
    IF nodeIdx[r] >= Len(nodes) THEN {}
    ELSE IF nodes[nodeIdx[r] + 1] = "pve1"
    THEN {[failed |-> TRUE, list |-> <<>>],
          [failed |-> FALSE, list |-> <<[vmid |-> VmidOf("pve1"), status |-> "stopped"]>>]}
    ELSE {[failed |-> FALSE, list |-> <<>>]}

SchedSnapshots == {NoRow, Row(JSONstringify([k \in Keys |-> "running"]))}

\* a point a previous process wrote eight days before this one started
OldPoint == [node |-> "pve1", metric |-> "cpu", value |-> 10,
             created_at |-> ClockStep - 8 * DAY_MS]

Init ==
    /\ InitRuns
    /\ InitProcess
    /\ metric_history = <<OldPoint>>
    /\ nodes = NodeNames
    /\ webhook \in BOOLEAN
    /\ vm_states \in SchedSnapshots
    /\ lastSeen = SnapshotMap(vm_states)

Next ==
    \/ CronFire
    \/ InitialRun
    \/ InitialTimeout
    \/ \E r \in Scheduled :
          \/ \E answers \in SchedStatusAnswers : Collected(r, answers)
          \/ \E answers \in SchedStatusAnswers : ThrFetched(r, answers)
          \/ \E res \in {"ok", "failed"} : ThrSent(r, res)
          \/ \E answer \in SchedVmAnswersAt(r) : VmNodeFetched(r, answer)
          \/ \E res \in {"ok", "failed"} : VmSent(r, res)

Spec == Init /\ [][Next]_vars

\* the same process with the time limits its requests carry: a request made
\* by proxmoxFetch settles within FETCH_TIMEOUT_MS = 15 s (the abort of lines 58-59
\* of proxmox.ts), so the step that receives its result is taken; the POST of
\* sendDiscordAlert carries no signal and no timer, so nothing is assumed
\* about ThrSent and VmSent
Bounded(r) ==
    /\ WF_vars(\E answers \in SchedStatusAnswers : Collected(r, answers))
    /\ WF_vars(\E answers \in SchedStatusAnswers : ThrFetched(r, answers))
    /\ WF_vars(\E answer \in SchedVmAnswersAt(r) : VmNodeFetched(r, answer))

SpecLive == Init /\ [][Next]_vars /\ \A r \in Scheduled : Bounded(r)

\* the same process on a store whose calls can throw (better-sqlite3 raises
\* SQLITE_BUSY, SQLITE_FULL, SQLITE_IOERR from run()): the first call of the
\* operation named by failing throws
StorageOps == {"addMetricHistory", "addAlertHistory", "setConfig", "cleanupOldHistory"}

InitFault ==
    /\ pc = [r \in Runs |-> "idle"]
    /\ nodesStatus = [r \in Runs |-> <<>>]
    /\ thresholds = [r \in Runs |-> <<>>]
    /\ pos = [r \in Runs |-> 0]
    /\ nodeIdx = [r \in Runs |-> 0]
    /\ allVMs = [r \in Runs |-> <<>>]
    /\ vms = [r \in Runs |-> <<>>]
    /\ prevStatesMap = [r \in Runs |-> EmptyMap]
    /\ currentStatesMap = [r \in Runs |-> EmptyMap]
    /\ timedOut = FALSE
    /\ written = 0
    /\ failing \in StorageOps \cup {None}
    /\ alive = TRUE
    /\ readAt = [r \in Runs |-> 0]
    /\ calls = 0
    /\ updates = 0
    /\ InitProcess
    /\ metric_history = <<OldPoint>>
    /\ nodes = NodeNames
    /\ webhook \in BOOLEAN
    /\ vm_states \in SchedSnapshots
    /\ lastSeen = SnapshotMap(vm_states)

\* a process that has ended takes no step
NextFault == alive /\ Next

SpecFault == InitFault /\ [][NextFault]_vars

\* the functions of database.ts as the process calls them, one call at a
\* time, on a new database file or on the file an earlier process has left
StoreCalls == {"initDatabase", "updateAlertThreshold", "cleanupOldHistory"}

\* the operator has set cpu to 70 and switched disk off
UsedThresholds ==
    << [metric |-> "cpu", threshold |-> 70, enabled |-> TRUE],
       [metric |-> "memory", threshold |-> 85, enabled |-> TRUE],
       [metric |-> "disk", threshold |-> 90, enabled |-> FALSE] >>

\* points written eight days, six days and 23 hours, and six days before
NearWeekPoint == [node |-> "pve1", metric |-> "cpu", value |-> 20,
                  created_at |-> ClockStep - WEEK_MS + 60 * 60 * 1000]
SixDayPoint == [node |-> "pve1", metric |-> "cpu", value |-> 30,
                created_at |-> ClockStep - 6 * DAY_MS]
UsedMetrics == <<OldPoint, NearWeekPoint, SixDayPoint>>

\* a full alert log: every 15 minutes checkThresholds has logged cpu on pve1
\* and on pve2 in the same second
UsedAlerts ==
    [i \in 1 .. HISTORY_LIMIT |->
        [metric |-> "cpu", value |-> 85, threshold |-> 80,
         message |-> [label |-> "CPU", node |-> NodeNames[2 - (i % 2)],
                      value |-> 85, threshold |-> 80],
         created_at |-> ClockStep - (501 - ((i + 1) \div 2)) * COOLDOWN_MS]]

InitStore ==
    /\ InitRuns
    /\ clock = 1
    /\ alertCooldowns = EmptyMap
    /\ lastNodeErrors = EmptyMap
    /\ sendCalls = <<>>
    /\ delivery = None
    /\ nodes = NodeNames
    /\ webhook = FALSE
    /\ vm_states = NoRow
    /\ lastSeen = SnapshotMap(vm_states)
    /\ \/ /\ alert_thresholds = <<>>
          /\ alert_history = <<>>
          /\ metric_history = <<>>
       \/ /\ alert_thresholds = UsedThresholds
          /\ alert_history = UsedAlerts
          /\ metric_history = UsedMetrics

\* the process calls a function of database.ts; init() calls initDatabase
\* before anything else (part_001 line 382)
CallStore(fn) ==
    /\ pc[Caller] = "idle"
    /\ calls < MaxOps
    /\ fn = "initDatabase" \/ calls > 0
    /\ calls' = calls + 1
    /\ pc' = [pc EXCEPT ![Caller] = fn]
    /\ UNCHANGED <<clock, nodes, webhook, alert_thresholds, alert_history,
                   metric_history, vm_states, alertCooldowns, lastNodeErrors,
                   sendCalls, delivery, nodesStatus, thresholds, pos, nodeIdx, allVMs,
                   vms, prevStatesMap, currentStatesMap, timedOut, written, readAt,
                   updates, failing, alive, lastSeen>>

InitDatabase ==
    /\ pc[Caller] = "initDatabase"
    /\ alert_thresholds' = initDatabase(alert_thresholds)
    /\ pc' = [pc EXCEPT ![Caller] = "idle"]
    /\ UNCHANGED <<clock, nodes, webhook, alert_history, metric_history, vm_states,
                   alertCooldowns, lastNodeErrors, sendCalls, delivery, nodesStatus,
                   thresholds, pos, nodeIdx, allVMs, vms, prevStatesMap,
                   currentStatesMap, timedOut, written, readAt, calls, updates,
                   failing, alive, lastSeen>>

UpdateAlertThreshold(metric, threshold, enabled) ==
    /\ pc[Caller] = "updateAlertThreshold"
    /\ alert_thresholds' = updateAlertThreshold(metric, threshold, enabled)
    /\ pc' = [pc EXCEPT ![Caller] = "idle"]
    /\ UNCHANGED <<clock, nodes, webhook, alert_history, metric_history, vm_states,
                   alertCooldowns, lastNodeErrors, sendCalls, delivery, nodesStatus,
                   thresholds, pos, nodeIdx, allVMs, vms, prevStatesMap,
                   currentStatesMap, timedOut, written, readAt, calls, updates,
                   failing, alive, lastSeen>>

CleanupOldHistory ==
    /\ pc[Caller] = "cleanupOldHistory"
    /\ metric_history' = cleanupMetrics(metric_history)
    /\ alert_history' \in cleanupAlerts(alert_history)
    /\ pc' = [pc EXCEPT ![Caller] = "idle"]
    /\ UNCHANGED <<clock, nodes, webhook, alert_thresholds, vm_states,
                   alertCooldowns, lastNodeErrors, sendCalls, delivery, nodesStatus,
                   thresholds, pos, nodeIdx, allVMs, vms, prevStatesMap,
                   currentStatesMap, timedOut, written, readAt, calls, updates,
                   failing, alive, lastSeen>>

\* what /setalert can pass: a metric of the table or any other word
UpdateInputs == {<<"cpu", 90, TRUE>>, <<"memory", 50, FALSE>>, <<"swap", 60, TRUE>>}

NextStore ==
    \/ \E fn \in StoreCalls : CallStore(fn)
    \/ InitDatabase
    \/ \E in \in UpdateInputs : UpdateAlertThreshold(in[1], in[2], in[3])
    \/ CleanupOldHistory
    \/ calls > 0 /\ CallCheckThresholds
    \/ \E answers \in SchedStatusAnswers : ThrFetched(Caller, answers)
    \/ Tick

SpecStore == InitStore /\ [][NextStore]_vars

\* ======================================================================
\* Properties
\* ======================================================================
\* run r takes a step of checkThresholds
ThrStepped(r) ==
    /\ pc[r] \in {"thr_fetch", "thr_send"}
    /\ pc'[r] # pc[r] \/ pos'[r] # pos[r]

\* the loop positions the step evaluates
EvalPos(r) ==
    (IF pc[r] = "thr_fetch" THEN 0 ELSE pos[r] + 1) ..
    (IF pc'[r] = "thr_send" THEN pos'[r] ELSE pos'[r] - 1)

StatusAt(r, p) == ThrStatus(nodesStatus'[r], thresholds'[r], p)
RowAt(r, p) == ThrRow(thresholds'[r], p)
KeyAt(r, p) == <<StatusAt(r, p).node, RowAt(r, p).metric>>

NewRows(old, new) == SubSeq(new, Len(old) + 1, Len(new))
IsPrefix(old, new) == Len(old) <= Len(new) /\ SubSeq(new, 1, Len(old)) = old

\* the value of the pair at p reaches its enabled threshold
Breach(r, p) ==
    /\ RowAt(r, p).enabled
    /\ currentValue(StatusAt(r, p), RowAt(r, p).metric) >= RowAt(r, p).threshold

\* the pair at p fired less than COOLDOWN_MS ago
Suppressed(r, p) ==
    /\ KeyAt(r, p) \in DOMAIN alertCooldowns
    /\ Now - alertCooldowns[KeyAt(r, p)] < COOLDOWN_MS

\* the number of history rows the step writes for the pair at p
HistoryFor(r, p) ==
    LET rows == NewRows(alert_history, alert_history') IN
    Cardinality({i \in DOMAIN rows :
        /\ rows[i].metric = RowAt(r, p).metric
        /\ rows[i].message.node = StatusAt(r, p).node
        /\ rows[i].value = currentValue(StatusAt(r, p), RowAt(r, p).metric)
        /\ rows[i].threshold = RowAt(r, p).threshold})

\* the number of calls of the notifier the step makes for the pair at p
NotifiedFor(r, p) ==
    LET sent == NewRows(sendCalls, sendCalls') IN
    Cardinality({i \in DOMAIN sent :
        /\ sent[i].kind = "threshold"
        /\ sent[i].run = RunId(r)
        /\ sent[i].node = StatusAt(r, p).node
        /\ sent[i].what = RowAt(r, p).metric})

CooldownKept(key) ==
    /\ key \in DOMAIN alertCooldowns <=> key \in DOMAIN alertCooldowns'
    /\ key \in DOMAIN alertCooldowns => alertCooldowns'[key] = alertCooldowns[key]

CooldownSetNow(key) ==
    /\ key \in DOMAIN alertCooldowns'
    /\ alertCooldowns'[key] = Now

SameThresholdPair(a, b) ==
    /\ a.kind = "threshold" /\ b.kind = "threshold"
    /\ a.node = b.node /\ a.what = b.what

\* two threshold notifications of one (node, metric) pair are COOLDOWN_MS apart
SpacedNotifications ==
    \A i, j \in DOMAIN sendCalls :
        (i < j /\ SameThresholdPair(sendCalls[i], sendCalls[j]))
            => sendCalls[j].at - sendCalls[i].at >= COOLDOWN_MS

\* a breach of a pair that has fired before: silent inside the window, fires after it
CooldownDecides ==
    \A r \in Runs : ThrStepped(r) =>
        \A p \in EvalPos(r) :
            (Breach(r, p) /\ KeyAt(r, p) \in DOMAIN alertCooldowns) =>
                IF Now - alertCooldowns[KeyAt(r, p)] < COOLDOWN_MS
                THEN HistoryFor(r, p) = 0 /\ NotifiedFor(r, p) = 0
                ELSE HistoryFor(r, p) = 1 /\ NotifiedFor(r, p) = 1

\* C2: over sequential checkThresholds runs, two threshold notifications for
\* the same (node, metric) pair are never less than COOLDOWN_MS (15 min)
\* apart; a breach evaluated less than 15 min after the pair's last alert
\* writes no history row and sends nothing, one evaluated 15 min or more
\* after it fires again.
C2_Cooldown == []SpacedNotifications /\ [][CooldownDecides]_vars

\* a pair has fired twice
C2_Witness ==
    \E i, j \in DOMAIN sendCalls :
        /\ i < j
        /\ SameThresholdPair(sendCalls[i], sendCalls[j])
        /\ sendCalls[j].at - sendCalls[i].at >= COOLDOWN_MS

FiresOncePerBreach ==
    \A r \in Runs : ThrStepped(r) =>
        /\ IsPrefix(alert_history, alert_history')
        /\ IsPrefix(sendCalls, sendCalls')
        /\ pc[r] = "thr_send" =>
              CooldownSetNow(<<ThrStatus(nodesStatus[r], thresholds[r], pos[r]).node,
                               ThrRow(thresholds[r], pos[r]).metric>>)
        /\ \A p \in EvalPos(r) :
              IF Breach(r, p) /\ ~Suppressed(r, p)
              THEN /\ HistoryFor(r, p) = 1
                   /\ NotifiedFor(r, p) = 1
                   /\ webhook \/ CooldownSetNow(KeyAt(r, p))
              ELSE /\ HistoryFor(r, p) = 0
                   /\ NotifiedFor(r, p) = 0
                   /\ CooldownKept(KeyAt(r, p))
        /\ Len(alert_history') - Len(alert_history)
              = Cardinality({p \in EvalPos(r) : Breach(r, p) /\ ~Suppressed(r, p)})

\* C4: in checkThresholds, a (node, enabled threshold) pair whose value is >=
\* the threshold and that is not on cooldown gets exactly one history row
\* (metric, value, threshold), exactly one call of the notifier, and its
\* cooldown set to the current time (when the notifier returns); a pair below
\* its threshold gets none of the three.
C4_FiresOnce == [][FiresOncePerBreach]_vars

\* pve1 at cpu 85 against the threshold 80: one row, one call, cooldown set
C4_Witness ==
    /\ Cardinality({i \in DOMAIN alert_history :
          /\ alert_history[i].metric = "cpu"
          /\ alert_history[i].value = 85
          /\ alert_history[i].threshold = 80
          /\ alert_history[i].message.node = "pve1"}) = 1
    /\ Cardinality({i \in DOMAIN sendCalls :
          sendCalls[i].node = "pve1" /\ sendCalls[i].what = "cpu"}) = 1
    /\ <<"pve1", "cpu">> \in DOMAIN alertCooldowns

\* what a step writes for metric m
WritesFor(m) ==
    \/ \E i \in DOMAIN NewRows(alert_history, alert_history') :
          NewRows(alert_history, alert_history')[i].metric = m
    \/ \E i \in DOMAIN NewRows(sendCalls, sendCalls') :
          /\ NewRows(sendCalls, sendCalls')[i].kind = "threshold"
          /\ NewRows(sendCalls, sendCalls')[i].what = m
    \/ \E n \in Range(nodes) : ~CooldownKept(<<n, m>>)

DisabledInStoreSilent ==
    \A i \in DOMAIN alert_thresholds :
        ~alert_thresholds[i].enabled => ~WritesFor(alert_thresholds[i].metric)

\* C5 as stated: while the enabled flag of a threshold is false in the store,
\* no history row, no notification and no cooldown change for its metric
C5_AsStated == [][DisabledInStoreSilent]_vars

DisabledWhenReadSilent ==
    \A r \in Runs : ThrStepped(r) =>
        \A i \in DOMAIN thresholds'[r] :
            ~thresholds'[r][i].enabled => ~WritesFor(thresholds'[r][i].metric)

\* C5: a run of checkThresholds writes no history row, sends no notification
\* and changes no cooldown entry for a metric whose threshold was disabled in
\* the list the run read (line 71), whatever the nodes report.
C5_DisabledSkipped == [][DisabledWhenReadSilent]_vars

\* a run that read memory as disabled has met a node at 85 % and only alerted for cpu
C5_Witness ==
    \E c \in {Caller} :
        /\ pc[c] = "idle"
        /\ \E i \in DOMAIN thresholds[c] :
              /\ thresholds[c][i].metric = "memory"
              /\ ~thresholds[c][i].enabled
        /\ \E i \in DOMAIN nodesStatus[c] :
              currentValue(nodesStatus[c][i], "memory") >= 85
        /\ \E i \in DOMAIN alert_history :
              alert_history[i].metric = "cpu" /\ alert_history[i].message.node = "pve1"
        /\ \A i \in DOMAIN alert_history : alert_history[i].metric # "memory"

\* -------------------------------------------------------- checkVMStatus
\* the states a list of machines shows, by key
ObservedMap(list) ==
    [k \in {<<list[i].node, list[i].vmid>> : i \in DOMAIN list} |->
        (CHOOSE vm \in Range(list) : <<vm.node, vm.vmid>> = k).status]

\* the direct invocation of checkVMStatus has returned
VmReturned(r) == pc[r] = "idle" /\ calls >= 1

\* the number of notifications of `kind` the current run of r has sent for key
Told(r, kind, key) ==
    Cardinality({i \in DOMAIN sendCalls :
        /\ sendCalls[i].run = RunId(r)
        /\ sendCalls[i].kind = kind
        /\ <<sendCalls[i].node, sendCalls[i].what>> = key})

Was(r, key, state) ==
    key \in DOMAIN prevStatesMap[r] /\ prevStatesMap[r][key] = state

Is(r, key, state) ==
    key \in DOMAIN ObservedMap(vms[r]) /\ ObservedMap(vms[r])[key] = state

\* C7: a checkVMStatus run sends exactly one stop notification for a key that
\* was 'running' in the snapshot it read and is observed 'stopped', exactly
\* one start notification for a key that was 'stopped' and is observed
\* 'running', and nothing for a key in any other case (unchanged, only in the
\* snapshot, only observed, or any other state on either side).
C7_Transitions ==
    \A r \in Runs : VmReturned(r) =>
        \A key \in Keys :
            /\ Told(r, "stopped", key) =
                  IF Was(r, key, "running") /\ Is(r, key, "stopped") THEN 1 ELSE 0
            /\ Told(r, "started", key) =
                  IF Was(r, key, "stopped") /\ Is(r, key, "running") THEN 1 ELSE 0

\* one run has met a stop, a paused machine that runs again, and nothing else
C7_Witness ==
    /\ VmReturned(Caller)
    /\ \E key \in Keys :
          /\ Was(Caller, key, "running") /\ Is(Caller, key, "stopped")
          /\ Told(Caller, "stopped", key) = 1
    /\ \E key \in Keys :
          /\ Was(Caller, key, "paused") /\ Is(Caller, key, "running")
          /\ Told(Caller, "started", key) = 0

\* run r leaves checkVMStatus in this step
VmReturns(r) ==
    /\ pc[r] \in {"vm_fetch", "vm_send"}
    /\ pc'[r] \notin {"vm_fetch", "vm_send"}

\* run r gets the list of getVMs and reads the snapshot in this step
VmReads(r) == pc[r] = "vm_fetch" /\ nodeIdx'[r] = Len(nodes)

SnapshotReplaced ==
    \A r \in Runs :
        /\ VmReturns(r) =>
              vm_states' = Row({<<<<vm.node, vm.vmid>>, vm.status>> :
                                   vm \in Range(allVMs'[r])})
        /\ VmReads(r) =>
              prevStatesMap'[r] = IF calls >= 2 THEN ObservedMap(vms[r])
                                  ELSE SnapshotMap(vm_states)

\* C8: when a checkVMStatus run returns, the row 'vm_states' holds exactly the
\* states that run observed (nothing of the earlier snapshot, also not for a
\* node whose fetch failed; written with or without a transition), and a
\* run's previous map is what the run before it observed.
C8_SnapshotReplaced == [][SnapshotReplaced]_vars

\* pve1 was in the snapshot the run read, its fetch failed, and it is gone
C8_Witness ==
    /\ VmReturned(Caller)
    /\ "pve1" \in DOMAIN lastNodeErrors
    /\ \E key \in DOMAIN prevStatesMap[Caller] : key[1] = "pve1"
    /\ vm_states.row
    /\ \A pair \in vm_states.value : pair[1][1] # "pve1"
    /\ \E pair \in vm_states.value : pair[1][1] = "pve2"

SecondRunSilent ==
    \A r \in Runs :
        (VmReads(r) /\ calls >= 2 /\ SortByVmid(allVMs'[r]) = vms[r]) =>
            /\ sendCalls' = sendCalls
            /\ VmReturns(r)

\* C9: a checkVMStatus run that observes what the run before it observed
\* sends no notification, whatever the first snapshot and the observation.
C9_SecondRunSilent == [][SecondRunSilent]_vars

\* the first call announced a stop, the second saw the machine stopped
\* again and announced nothing
C9_Witness ==
    /\ calls = 2
    /\ VmReturned(Caller)
    /\ \E i \in DOMAIN sendCalls :
          /\ sendCalls[i].run = <<"call", 1>>
          /\ sendCalls[i].kind = "stopped"
          /\ Is(Caller, <<sendCalls[i].node, sendCalls[i].what>>, "stopped")
    /\ \A i \in DOMAIN sendCalls : sendCalls[i].run # <<"call", 2>>
    /\ prevStatesMap[Caller] = ObservedMap(vms[Caller])

\* ------------------------------------------------------------ scheduling
InProgress(r) == pc[r] \notin {"idle", "done"}

\* C1: at any moment at most one run of collectMetrics -> checkThresholds ->
\* checkVMStatus is in progress, be it a cron firing or the initial run
\* (also after the initial run's 30 s timeout has been logged).
C1_NoOverlap == Cardinality({r \in Runs : InProgress(r)}) <= 1

\* two calls of sendDiscordAlert for one transition of one machine: both
\* compare against the same write of 'vm_states'
SameTransition(a, b) ==
    /\ a.kind \in {"stopped", "started"}
    /\ a.kind = b.kind /\ a.node = b.node /\ a.what = b.what
    /\ a.basis = b.basis

OneRunPerTransition ==
    \A i, j \in DOMAIN sendCalls :
        (i < j /\ SameTransition(sendCalls[i], sendCalls[j]))
            => sendCalls[i].run = sendCalls[j].run

\* C3: whatever runs the scheduler lets be in progress together, no (node,
\* metric) pair fires twice inside one cooldown window, and no transition of
\* a machine is notified by two runs.
C3_Interleaved == SpacedNotifications /\ OneRunPerTransition

\* ------------------------------------------------------------- delivery
PairAtPost(r) ==
    <<ThrStatus(nodesStatus[r], thresholds[r], pos[r]).node,
      ThrRow(thresholds[r], pos[r]).metric>>

\* the loop of checkThresholds went on to its end without another alert
ThrRanOut(r) ==
    /\ pc'[r] = After(r, "checkThresholds")
    /\ \A p \in EvalPos(r) : ~(Breach(r, p) /\ ~Suppressed(r, p))

\* the loop of checkVMStatus went on to its end without another transition
VmRanOut(r) ==
    /\ pc'[r] = After(r, "checkVMStatus")
    /\ \A k \in (pos[r] + 2)..Len(vms[r]) : Transition(prevStatesMap[r], vms[r][k]) = None
    /\ vm_states' = Row({<<<<vm.node, vm.vmid>>, vm.status>> : vm \in Range(vms[r])})

BookkeepingKept ==
    \A r \in Runs :
        \* the POST of an alert ends, well or badly
        /\ (pc[r] = "thr_send" /\ ThrStepped(r)) =>
              /\ CooldownSetNow(PairAtPost(r))
              /\ \E i \in DOMAIN alert_history' :
                    /\ alert_history'[i].metric = PairAtPost(r)[2]
                    /\ alert_history'[i].message.node = PairAtPost(r)[1]
              /\ (pc'[r] = "thr_send" /\ pos'[r] > pos[r]) \/ ThrRanOut(r)
        \* no webhook URL: the alert is booked at once
        /\ (~webhook /\ ThrStepped(r)) =>
              /\ pc'[r] = After(r, "checkThresholds")
              /\ \A p \in EvalPos(r) :
                    (Breach(r, p) /\ ~Suppressed(r, p)) =>
                        HistoryFor(r, p) = 1 /\ CooldownSetNow(KeyAt(r, p))
        \* the POST of a transition ends, well or badly
        /\ (pc[r] = "vm_send" /\ (pc'[r] # "vm_send" \/ pos'[r] # pos[r])) =>
              (pc'[r] = "vm_send" /\ pos'[r] > pos[r]) \/ VmRanOut(r)
        \* no webhook URL: the snapshot is written in the step that reads it
        /\ (~webhook /\ VmReads(r)) =>
              vm_states' = Row({<<<<vm.node, vm.vmid>>, vm.status>> :
                                   vm \in Range(allVMs'[r])})

\* C6: the outcome of the delivery does not change the bookkeeping: the
\* history row is written and the pair's cooldown is set whether the POST
\* succeeds, fails or no webhook URL is set; 'vm_states' is written whether
\* the transition notifications succeed or fail; a failed delivery does not
\* end checkThresholds or checkVMStatus.
C6_DeliveryIndependent == [][BookkeepingKept]_vars

\* the only run in progress has had its alert's POST fail: the pair is on
\* cooldown, the row is there, and the run has gone on to getVMs
C6_Witness ==
    \E r \in Scheduled :
        /\ pc[r] = "vm_fetch"
        /\ \A o \in Runs \ {r} : pc[o] = "idle"
        /\ delivery = "failed"
        /\ \E i \in DOMAIN sendCalls :
              /\ sendCalls[i].run = r /\ sendCalls[i].kind = "threshold"
              /\ <<sendCalls[i].node, sendCalls[i].what>> \in DOMAIN alertCooldowns
              /\ \E h \in DOMAIN alert_history :
                    /\ alert_history[h].metric = sendCalls[i].what
                    /\ alert_history[h].message.node = sendCalls[i].node

\* ------------------------------------------------------- collectMetrics
CollectReturns(r) == pc[r] = "collect_fetch" /\ pc'[r] # "collect_fetch"

\* the nodes the points of this step are for
PointsFor(node) ==
    LET rows == NewRows(metric_history, metric_history') IN
    {rows[i].metric : i \in {j \in DOMAIN rows : rows[j].node = node}}

FailedNodesRecorded ==
    \A r \in Runs : CollectReturns(r) =>
        LET healthy == {nodesStatus'[r][i].node : i \in DOMAIN nodesStatus'[r]}
        IN
        /\ \A n \in healthy : PointsFor(n) = {"cpu", "memory", "disk"}
        /\ \A n \in Range(nodes) \ healthy :
              /\ PointsFor(n) = {}
              /\ n \in DOMAIN lastNodeErrors'

\* the three points of one status, as lines 56-61 compute them
PointsOf(status) ==
    << [node |-> status.node, metric |-> "cpu", value |-> status.cpu,
        created_at |-> Now],
       [node |-> status.node, metric |-> "memory",
        value |-> (status.memory.used * 100) \div status.memory.total,
        created_at |-> Now],
       [node |-> status.node, metric |-> "disk",
        value |-> (status.disk.used * 100) \div status.disk.total,
        created_at |-> Now] >>

RECURSIVE PointsOfAll(_)
PointsOfAll(statuses) ==
    IF statuses = <<>> THEN <<>>
    ELSE PointsOf(Head(statuses)) \o PointsOfAll(Tail(statuses))

FreshPoints ==
    \A r \in Runs : CollectReturns(r) =>
        /\ IsPrefix(metric_history, metric_history')
        /\ NewRows(metric_history, metric_history') = PointsOfAll(nodesStatus'[r])
        /\ \A n \in Range(nodes) :
              Cardinality({i \in DOMAIN NewRows(metric_history, metric_history') :
                              NewRows(metric_history, metric_history')[i].node = n})
                 = IF \E i \in DOMAIN nodesStatus'[r] : nodesStatus'[r][i].node = n
                   THEN 3 ELSE 0

\* C11: for every node whose status fetch succeeded collectMetrics writes
\* exactly one point for each of cpu, memory and disk, none for a failed node,
\* and each value is computed from the status fetched in this call (cpu,
\* memory used/total*100, disk used/total*100), not from an earlier one.
C11_FreshPoints == [][FreshPoints]_vars

\* the second call has written the points of a node whose load has changed,
\* and none for the node that failed
C11_Witness ==
    /\ calls = 2 /\ pc[Caller] = "idle"
    /\ Len(metric_history) = 6
    /\ metric_history[1].node = "pve1" /\ metric_history[1].value = 10
    /\ metric_history[4].node = "pve1" /\ metric_history[4].value = 85
    /\ metric_history[5].metric = "memory" /\ metric_history[5].value = 85
    /\ metric_history[6].metric = "disk" /\ metric_history[6].value = 50

\* C10: when the status fetch of some nodes fails, the points of every
\* healthy node are still written and every failed node has its entry,
\* keyed by its name, in the error map.
C10_FailedRecorded == [][FailedNodesRecorded]_vars

\* ------------------------------------------- collector and evaluator
\* run r gets the statuses of line 70 in this step
ThrReads(r) == pc[r] = "thr_fetch" /\ pc'[r] # "thr_fetch"

BatchNodes(statuses) == {statuses[i].node : i \in DOMAIN statuses}

\* nodesStatus[r] is the batch collectMetrics wrote its points from,
\* nodesStatus'[r] the batch checkThresholds evaluates
SameBatch ==
    \A r \in Scheduled : ThrReads(r) =>
        /\ BatchNodes(nodesStatus'[r]) = BatchNodes(nodesStatus[r])
        /\ \A i \in DOMAIN nodesStatus'[r], j \in DOMAIN nodesStatus[r] :
              nodesStatus'[r][i].node = nodesStatus[r][j].node =>
                  \A m \in {"cpu", "memory", "disk"} :
                      currentValue(nodesStatus'[r][i], m) = currentValue(nodesStatus[r][j], m)

\* C12: within one run the evaluator works on the batch of the collector:
\* the nodes evaluated are the nodes points were written for, and every
\* value compared against a threshold is the point written for that pair.
C12_SameBatch == [][SameBatch]_vars

OnePointLost ==
    \A r \in Scheduled :
        CollectReturns(r) /\ failing = "addMetricHistory" /\ failing' = None =>
            Len(NewRows(metric_history, metric_history')) >= 3 * Len(nodesStatus'[r]) - 1

\* C14: a failing addMetricHistory call costs that single write only: the
\* other points of the same collectMetrics run are still written
C14_SingleWriteLost == [][OnePointLost]_vars

\* the order in which a tick passes its awaits: collectMetrics,
\* checkThresholds, checkVMStatus, and cleanupOldHistory on the way to "done"
TickOrder ==
    {<<"idle", "collect_fetch">>, <<"collect_fetch", "thr_fetch">>,
     <<"thr_fetch", "thr_send">>, <<"thr_fetch", "vm_fetch">>,
     <<"thr_send", "vm_fetch">>, <<"vm_fetch", "vm_send">>,
     <<"vm_fetch", "done">>, <<"vm_send", "done">>}

Stepped(r) == pc'[r] # pc[r] \/ pos'[r] # pos[r] \/ nodeIdx'[r] # nodeIdx[r]

\* a point older than seven days is among the rows
Expired(rows) == \E i \in DOMAIN rows : rows[i].created_at < Now - WEEK_MS

InOrder ==
    \A r \in TickRuns :
        /\ pc'[r] # pc[r] => <<pc[r], pc'[r]>> \in TickOrder
        /\ Stepped(r) =>
              /\ pc[r] = "collect_fetch" \/ Len(metric_history') <= Len(metric_history)
              /\ pc[r] \in {"thr_fetch", "thr_send"}
                    \/ (/\ Len(alert_history') <= Len(alert_history)
                        /\ alertCooldowns' = alertCooldowns)
              /\ pc[r] \in {"vm_fetch", "vm_send"} \/ vm_states' = vm_states
              /\ pc'[r] = "done" \/ IsPrefix(metric_history, metric_history')
              /\ pc'[r] = "done" /\ pc[r] # "done" =>
                    /\ ~Expired(metric_history')
                    /\ Len(alert_history') <= HISTORY_LIMIT

\* C15: a tick passes collection, evaluation, workload check and cleanup in
\* this order, each step's writes falling between its start and its return,
\* and when the tick is done the cleanup has run
C15_InOrder == [][InOrder]_vars

\* a tick has run all four steps: points written, an alert logged, the
\* snapshot stored, the expired point gone
C15_Witness ==
    \E r \in TickRuns :
        /\ pc[r] = "done"
        /\ pc[Startup] = "idle"
        /\ Len(metric_history) >= 3
        /\ OldPoint \notin Range(metric_history)
        /\ alert_history # <<>>
        /\ vm_states.row

\* once the timer of line 178 has expired, a step of the initial run writes
\* nothing, posts nothing and starts no further request
EnvelopeHolds ==
    timedOut /\ Stepped(Startup) =>
        /\ metric_history' = metric_history
        /\ alert_history' = alert_history
        /\ alertCooldowns' = alertCooldowns
        /\ sendCalls' = sendCalls
        /\ vm_states' = vm_states
        /\ pc'[Startup] = "done"

\* C16: the initial run is bounded by the 30 s envelope: after the timeout
\* has fired it performs no further fetch, write, notification or snapshot
\* update
C16_Envelope == [][EnvelopeHolds]_vars

\* C17: every run that starts finishes, whatever the remote parties do
C17_RunsFinish ==
    \A r \in Scheduled : (pc[r] = "collect_fetch") ~> (pc[r] = "done")

\* the call of cleanupOldHistory returns
CleanupReturns == pc[Caller] = "cleanupOldHistory" /\ pc'[Caller] = "idle"

\* after the pass no point older than seven days is left, and every point
\* that is at most six days old is still there
MetricRetention ==
    CleanupReturns =>
        /\ ~Expired(metric_history')
        /\ \A i \in DOMAIN metric_history :
              Now - metric_history[i].created_at <= 6 * DAY_MS =>
                  metric_history[i] \in Range(metric_history')

\* C18: after a cleanupOldHistory pass no metric point older than 7 days
\* remains, and a point that is 6 days old is still present
C18_MetricRetention == [][MetricRetention]_vars

\* the pass has run on the used file: the eight-day point is gone, the
\* six-day point is there
C18_Witness ==
    /\ pc[Caller] = "idle"
    /\ calls = 2
    /\ clock = 1
    /\ OldPoint \notin Range(metric_history)
    /\ SixDayPoint \in Range(metric_history)

\* the n rows written last
LastRows(rows, n) ==
    IF Len(rows) <= n THEN rows ELSE SubSeq(rows, Len(rows) - n + 1, Len(rows))

\* the log after a pass is the HISTORY_LIMIT rows written last; no other step
\* removes a row; a row is added only by a step of checkThresholds, for a
\* pair that was not on cooldown and is put on cooldown
AlertLogKept ==
    /\ CleanupReturns =>
          /\ Len(alert_history') <= HISTORY_LIMIT
          /\ alert_history' = LastRows(alert_history, HISTORY_LIMIT)
    /\ ~CleanupReturns => IsPrefix(alert_history, alert_history')
    /\ \A i \in DOMAIN alert_history' :
          i > Len(alert_history) =>
              LET row == alert_history'[i]
              IN  /\ ThrStepped(Caller)
                  /\ ~isOnCooldown(alertCooldowns, row.message.node, row.metric)
                  /\ isOnCooldown(alertCooldowns', row.message.node, row.metric)

\* C19: the alert log is append-only with bounded retention: a cleanup pass
\* leaves at most 1000 entries, the most recently written ones; entries are
\* added only when an alert fires after the cooldown check and removed only
\* by the pass
C19_AlertLog == [][AlertLogKept]_vars

InitReturns == pc[Caller] = "initDatabase" /\ pc'[Caller] = "idle"
UpdateReturns == pc[Caller] = "updateAlertThreshold" /\ pc'[Caller] = "idle"

\* the first initDatabase of the process has returned
Initialised == calls > 1 \/ (calls = 1 /\ pc[Caller] # "initDatabase")

OneRowEach(table) ==
    /\ Len(table) = 3
    /\ \A m \in {"cpu", "memory", "disk"} :
          Cardinality({i \in DOMAIN table : table[i].metric = m}) = 1

Seeded(table) ==
    \A i \in DOMAIN table :
        /\ table[i].enabled
        /\ table[i].threshold =
              CASE table[i].metric = "cpu" -> 80
                [] table[i].metric = "memory" -> 85
                [] OTHER -> 90

\* initDatabase leaves the rows it finds and seeds an empty table;
\* updateAlertThreshold changes at most one row, keeps its metric and adds
\* none; no other step, checkThresholds included, writes the table
ThresholdsKept ==
    /\ InitReturns =>
          /\ IsPrefix(alert_thresholds, alert_thresholds')
          /\ alert_thresholds = <<>> => Seeded(alert_thresholds')
    /\ UpdateReturns =>
          /\ Len(alert_thresholds') = Len(alert_thresholds)
          /\ \A i \in DOMAIN alert_thresholds :
                alert_thresholds'[i].metric = alert_thresholds[i].metric
          /\ Cardinality({i \in DOMAIN alert_thresholds :
                            alert_thresholds'[i] # alert_thresholds[i]}) <= 1
    /\ ~InitReturns /\ ~UpdateReturns => alert_thresholds' = alert_thresholds

\* C20: after initDatabase and any sequence of updateAlertThreshold and
\* initDatabase calls the table holds exactly one row for each of cpu, memory
\* and disk; the first initDatabase seeds 80, 85, 90, all enabled; a later one
\* overwrites nothing; updateAlertThreshold changes only the named row and
\* creates none; checkThresholds only reads
C20_Thresholds ==
    /\ [](Initialised => OneRowEach(alert_thresholds))
    /\ [][ThresholdsKept]_vars

\* initDatabase has run on the table the operator had changed, and the
\* operator's values are there
C20_Witness ==
    /\ calls = 1
    /\ pc[Caller] = "idle"
    /\ alert_thresholds = UsedThresholds

\* every point written less than seven days before the pass is there after it
YoungKept ==
    CleanupReturns =>
        \A i \in DOMAIN metric_history :
            Now - metric_history[i].created_at < WEEK_MS =>
                metric_history[i] \in Range(metric_history')

\* C21: cleanupOldHistory never deletes a metric point that is less than
\* seven days old, the stored 'YYYY-MM-DD HH:MM:SS' being compared as text
\* with the ISO form of the cutoff
C21_YoungKept == [][YoungKept]_vars

\* the run r, returning in this step, has called sendDiscordAlert with a
\* notification of `kind` for key
TellsBy(r, kind, key) ==
    \E i \in DOMAIN sendCalls' :
        /\ sendCalls'[i].run = RunId(r)
        /\ sendCalls'[i].kind = kind
        /\ <<sendCalls'[i].node, sendCalls'[i].what>> = key

\* a key that the latest run observing it found running and that this run
\* finds stopped gets its stop notification in this run, and likewise a start
NoTransitionLost ==
    \A r \in Runs :
        VmReturns(r) =>
            \A key \in DOMAIN currentStatesMap'[r] \cap DOMAIN lastSeen :
                /\ lastSeen[key] = "running" /\ currentStatesMap'[r][key] = "stopped"
                      => TellsBy(r, "stopped", key)
                /\ lastSeen[key] = "stopped" /\ currentStatesMap'[r][key] = "running"
                      => TellsBy(r, "started", key)

\* C22: no stop is lost across a gap in observation: a workload observed
\* running in one checkVMStatus run and stopped in the next run that observes
\* it at all gets a stop notification in that run, also when the inventory
\* fetch of its node failed in the runs between (and likewise a start)
C22_NoTransitionLost == [][NoTransitionLost]_vars
====
